---- MODULE Spec2Model ----
(***************************************************************************)
(* Model of app/main.py: the Flask dashboard service for OSS trend and     *)
(* contributor-network metrics.  The module holds                           *)
(*   - the pure helpers (name pattern, blacklist, _safe_int, ranking),      *)
(*   - Candidate Discovery (search_popular_repos) as a step machine,        *)
(*   - Metrics Aggregation, the warehouse queries,                          *)
(*   - the dashboard cache with its lock, and the request handler index(). *)
(***************************************************************************)
EXTENDS Integers, Sequences, FiniteSets, TLC

VARIABLES
    \* ---- Candidate Discovery (search_popular_repos) ----
    s_mode,      \* the mode argument
    s_pc,        \* "primary" | "fallback" | "done"
    s_i,         \* index of the next sub-query of the list being fetched
    s_rows,      \* fetch(): the insertion-ordered dict `rows`, as a sequence
    s_issued,    \* history: the sub-queries sent to the search API, in order, each with
                 \* whether `rows` was non-empty after it
    s_failed,    \* history: "no", "failed" once a call failed, "recovered" once a
                 \* sub-query after a failed one added a row
    s_first,     \* history: the first occurrence of every acceptable name in the responses
    s_results    \* the returned list (once s_pc = "done")

s_vars == <<s_mode, s_pc, s_i, s_rows, s_issued, s_failed, s_first, s_results>>

VARIABLES
    \* ---- index(): the request parameters (lines 598-631) ----
    p_args,      \* request.args: window and network, each given or not
    p_project,   \* GCP_PROJECT (None when not configured)
    p_pc,        \* "request" | "redirect" | "parsed"
    p_window,    \* window_days
    p_network,   \* include_network
    p_key        \* cache_key

p_vars == <<p_args, p_project, p_pc, p_window, p_network, p_key>>

VARIABLES
    \* ---- Ranking (build_trend_rows) ----
    r_pc,        \* "input" | "ranked" | "reranked"
    r_in,        \* the metrics rows given
    r_out,       \* build_trend_rows(r_in)
    r_again      \* build_trend_rows(r_out)

r_vars == <<r_pc, r_in, r_out, r_again>>

VARIABLES
    \* ---- Metrics Aggregation (attach_star_fork_deltas) ----
    m_pc,        \* "input" | "returned"
    m_repos,     \* the candidate rows given
    m_window,    \* window_days
    m_query,     \* what run_query did: "none" (not called), "raised" or "rows"
    m_rows,      \* the rows run_query returned
    m_out        \* the list returned

m_vars == <<m_pc, m_repos, m_window, m_query, m_rows, m_out>>

VARIABLES
    \* ---- the service: request threads, the dashboard cache and its lock ----
    gcp_project, \* GCP_PROJECT (None when no project id is configured)
    warehouse,   \* the warehouse tables the queries read
    now,         \* the last reading of datetime.utcnow(), in seconds
    lock,        \* _CACHE_LOCK: Free or the thread holding it
    cache,       \* _DASHBOARD_CACHE: key -> Absent or (timestamp, payload)
    pc,          \* where each request thread is in index()
    loc,         \* the local variables of index() in each thread
    served,      \* number of requests accepted so far
    hist,        \* history of each thread's request: calls made, failures met
    last_set,    \* history: key -> the last (timestamp, payload) _cache_set stored
    search_calls \* history: the calls of search_popular_repos, each with its
                 \* mode, its window and the clock reading it was made at

h_vars == <<gcp_project, warehouse, now, lock, cache, pc, loc, served, hist, last_set,
           search_calls>>

vars == <<s_vars, p_vars, r_vars, m_vars, h_vars>>

None == "None"

SeqsUpTo(S, n) == UNION { [1 .. k -> S] : k \in 0 .. n }

Min(a, b) == IF a < b THEN a ELSE b

\* dict.get(key, default)
Get(r, key, default) == IF key \in DOMAIN r THEN r[key] ELSE default

\* dict(r) followed by assignments / dict.update(u)
Update(r, u) ==
    [k \in DOMAIN r \cup DOMAIN u |-> IF k \in DOMAIN u THEN u[k] ELSE r[k]]

CandidateRow(it) ==
    [repo_name |-> it.full_name,
     stars_total |-> 0,
     forks_total |-> 0,
     last_activity_date |-> it.pushed_at]

\* the slice s[:n]
Take(s, n) == SubSeq(s, 1, Min(Len(s), n))

----------------------------------------------------------------------------
(* Strings are sequences of one-character strings, so that the regular     *)
(* expressions of the source can be computed.                              *)

LowerLetters == {"a", "b", "c", "d", "e", "i", "l", "o", "p", "t", "u", "x"}
UpperLetters == {"A", "C", "D", "E", "L", "O", "U", "X"}
Digits == {"0", "1", "2", "3", "4", "5", "6", "7", "8", "9"}

\* str.lower() / re.IGNORECASE on one character
ToLower(c) ==
    CASE c = "A" -> "a" [] c = "C" -> "c" [] c = "D" -> "d" [] c = "E" -> "e"
      [] c = "L" -> "l" [] c = "O" -> "o" [] c = "U" -> "u" [] c = "X" -> "x"
      [] OTHER -> c

\* the character class [A-Za-z0-9_.-]
NameChar(c) == c \in LowerLetters \cup UpperLetters \cup Digits \cup {"_", ".", "-"}

\* REPO_NAME = ^[A-Za-z0-9_.-]+/[A-Za-z0-9_.-]+$ ; `$` also matches before one
\* trailing newline.
REPO_NAME_match(s) ==
    LET t == IF Len(s) > 0 /\ s[Len(s)] = "\n" THEN SubSeq(s, 1, Len(s) - 1) ELSE s
    IN  \E k \in 2 .. Len(t) - 1 :
           /\ t[k] = "/"
           /\ \A j \in 1 .. Len(t) : j # k => NameChar(t[j])

\* pat occurs in s, ignoring case
ContainsIgnoreCase(s, pat) ==
    \E i \in 1 .. Len(s) - Len(pat) + 1 :
        \A j \in 1 .. Len(pat) : ToLower(s[i + j - 1]) = pat[j]

BlacklistWords ==
    { <<"c", "o", "p", "i", "l", "o", "t">>,
      <<"c", "l", "a", "u", "d", "e">>,
      <<"c", "o", "d", "e", "x">> }

\* BLACKLIST_PATTERN.search(s)
BLACKLIST_PATTERN_search(s) == \E w \in BlacklistWords : ContainsIgnoreCase(s, w)

----------------------------------------------------------------------------
(* Repository names the search API and the warehouse can mention.          *)

RepoA == <<"a", "/", "b">>
RepoB == <<"c", "/", "d">>
RepoC == <<"e", ".", "x", "/", "t", "-", "1">>
RepoNoSlash == <<"a", "b">>
RepoSpace == <<"a", " ", "/", "b">>
RepoCodex == <<"x", "/", "C", "o", "d", "e", "X">>
NoName == << >>

RawNames == {RepoA, RepoB, RepoC, RepoNoSlash, RepoCodex}

\* the first ten characters of pushed_at
PushedDates == {"2024-01-01", "2024-02-02"}

----------------------------------------------------------------------------
(* index(): request parameters                                             *)

DEFAULT_WINDOW_DAYS == 30

\* longest text of the window parameter
MaxWindowLen == 3

WindowChars == {"0", "1", "3", "4", "7", "9", "-", "+", " ", "_", "x"}

IsSpace(c) == c \in {" ", "\t", "\n"}

RECURSIVE LStrip(_)
LStrip(s) == IF s # << >> /\ IsSpace(Head(s)) THEN LStrip(Tail(s)) ELSE s

RECURSIVE RStrip(_)
RStrip(s) ==
    IF s # << >> /\ IsSpace(s[Len(s)]) THEN RStrip(SubSeq(s, 1, Len(s) - 1)) ELSE s

DigitValue(c) ==
    CASE c = "0" -> 0 [] c = "1" -> 1 [] c = "2" -> 2 [] c = "3" -> 3
      [] c = "4" -> 4 [] c = "5" -> 5 [] c = "6" -> 6 [] c = "7" -> 7
      [] c = "8" -> 8 [] c = "9" -> 9

\* the digits of a numeral, read left to right; underscores are skipped
RECURSIVE DigitsValue(_, _)
DigitsValue(acc, s) ==
    IF s = << >> THEN acc
    ELSE IF Head(s) = "_" THEN DigitsValue(acc, Tail(s))
    ELSE DigitsValue(10 * acc + DigitValue(Head(s)), Tail(s))

\* digits, with single underscores allowed between digits
IsNumeral(s) ==
    /\ s # << >>
    /\ \A k \in 1 .. Len(s) : s[k] \in Digits \cup {"_"}
    /\ s[1] # "_" /\ s[Len(s)] # "_"
    /\ \A k \in 1 .. Len(s) - 1 : ~(s[k] = "_" /\ s[k + 1] = "_")

\* Python int(text): ok = FALSE where it raises ValueError
PyInt(text) ==
    LET t == RStrip(LStrip(text))
        signed == t # << >> /\ Head(t) \in {"+", "-"}
        body == IF signed THEN Tail(t) ELSE t
    IN  IF IsNumeral(body)
        THEN [ok |-> TRUE,
              v |-> IF signed /\ Head(t) = "-" THEN 0 - DigitsValue(0, body)
                    ELSE DigitsValue(0, body)]
        ELSE [ok |-> FALSE, v |-> 0]

\* request.args.get(name): given = FALSE is None
NotGiven == [given |-> FALSE, text |-> << >>]
Given(text) == [given |-> TRUE, text |-> text]

\* _safe_int with the lower bound min_v + 6, as if 7 were the floor
safe_int_ClampToSeven(raw, default, min_v, max_v) ==
    LET r == PyInt(IF raw.given THEN raw.text ELSE << >>)
    IN  IF ~r.ok THEN default
        ELSE IF r.v < min_v + 6 THEN min_v + 6
        ELSE IF r.v > max_v THEN max_v
        ELSE r.v

\* _safe_int(raw, default, min_v, max_v); `raw or ""` makes None the empty text
safe_int(raw, default, min_v, max_v) ==
    LET r == PyInt(IF raw.given THEN raw.text ELSE << >>)
    IN  IF ~r.ok THEN default
        ELSE IF r.v < min_v THEN min_v
        ELSE IF r.v > max_v THEN max_v
        ELSE r.v

allowed_window_days == {7, 14, 30}

\* lines 601-603 of index()
effective_window(raw) ==
    LET requested_window_days == safe_int(raw, DEFAULT_WINDOW_DAYS, 1, 365)
    IN  IF requested_window_days \in allowed_window_days
        THEN requested_window_days
        ELSE DEFAULT_WINDOW_DAYS

Txt0 == <<"0">>
TxtFalse == <<"f", "a", "l", "s", "e">>
TxtCapFalse == <<"F", "a", "l", "s", "e">>
TxtOff == <<"o", "f", "f">>
TxtNo == <<"n", "o">>
Txt1 == <<"1">>
TxtUpperNo == <<"N", "O">>

\* line 607 of index(): request.args.get("network", "1") not in {...}
include_network_of(raw) ==
    (IF raw.given THEN raw.text ELSE Txt1)
        \notin {Txt0, TxtFalse, TxtCapFalse, TxtOff, TxtNo}

NetworkArgs == {NotGiven} \cup {Given(t) : t \in {Txt0, TxtFalse, TxtOff, Txt1, TxtUpperNo}}

ProjectA == "proj-a"
NotSetProject == "(Not set)"

\* lines 624-629 of index(): _active_project(), or "(Not set)" when it raises
project_for_view_of(project) ==
    IF project = None THEN NotSetProject ELSE project

\* _dashboard_cache_key: the four fields of the f-string
dashboard_cache_key(window_days, trend_mode, include_network, project_id) ==
    <<project_id, trend_mode, window_days, IF include_network THEN 1 ELSE 0>>

ParamStart ==
    /\ p_args \in [window : {NotGiven} \cup {Given(t) : t \in SeqsUpTo(WindowChars, MaxWindowLen)},
                   network : NetworkArgs]
    /\ p_project \in {None, ProjectA}
    /\ p_pc = "request"
    /\ p_window = 0
    /\ p_network = FALSE
    /\ p_key = << >>

\* lines 598-599: no window parameter, redirect to window=30
ParamRedirect ==
    /\ p_pc = "request"
    /\ ~p_args.window.given
    /\ p_pc' = "redirect"
    /\ UNCHANGED <<p_args, p_project, p_window, p_network, p_key>>
    /\ UNCHANGED <<s_vars, r_vars, m_vars, h_vars>>

\* lines 601-631: window_days, include_network, cache_key
ParamParse ==
    /\ p_pc = "request"
    /\ p_args.window.given
    /\ p_pc' = "parsed"
    /\ p_window' = effective_window(p_args.window)
    /\ p_network' = include_network_of(p_args.network)
    /\ p_key' = dashboard_cache_key(effective_window(p_args.window), "trending",
                                    include_network_of(p_args.network),
                                    project_for_view_of(p_project))
    /\ UNCHANGED <<p_args, p_project>>
    /\ UNCHANGED <<s_vars, r_vars, m_vars, h_vars>>

\* C5: a request that supplies a window whose value is not 7, 14 or 30
\* (non-numeric and out-of-range values included) runs with window 30, in the
\* cache key too; a value of 7, 14 or 30 is the window.
C5_WindowAllowList ==
    p_pc = "parsed" =>
        LET r == PyInt(p_args.window.text)
        IN  /\ p_window = IF r.ok /\ r.v \in {7, 14, 30} THEN r.v ELSE 30
            /\ p_key[3] = p_window
            /\ p_args.window.text = <<"7">> => p_window = 7
            /\ p_args.window.text = <<"1", "4">> => p_window = 14
            /\ p_args.window.text = <<"3", "0">> => p_window = 30
            /\ p_args.window.text = <<"9", "9">> => p_window = 30

\* a parsed request with an out-of-range number below the allow-list
C5_Witness ==
    /\ p_pc = "parsed"
    /\ PyInt(p_args.window.text).ok
    /\ PyInt(p_args.window.text).v \in 1 .. 6
    /\ p_window = 30

----------------------------------------------------------------------------
(* The warehouse, and Metrics Aggregation: attach_star_fork_deltas         *)

\* most rows of stg_github_events
MaxStgRows == 2

\* longest candidate list given to attach_star_fork_deltas
MaxRepos == 2

Alice == <<"a", "l", "i", "c", "e">>
ClaudeBot == <<"C", "l", "a", "u", "d", "e", "-", "b", "o", "t">>

\* activity_date, as days before analysis_end = CURRENT_DATE - 1
ActivityDays == {0, 7, 14}

WarehouseRepos == {RepoA, RepoB}

StgEventRows == [repo_name : WarehouseRepos, day : ActivityDays, contributor : {Alice, ClaudeBot}]

DailyActivityRows == [repo_name : WarehouseRepos, day : {0, 14}, total_events : {1}]

\* the states of the two tables the queries read
Warehouses ==
    [stg : {t \in SUBSET StgEventRows : Cardinality(t) <= MaxStgRows},
     daily : SUBSET DailyActivityRows]

\* activity_date BETWEEN curr_start AND analysis_end
InCurrWindow(day, window_days) == day >= 0 /\ day <= window_days

\* activity_date BETWEEN prev_start AND prev_end
InPrevWindow(day, window_days) == day >= window_days /\ day <= 2 * window_days

RECURSIVE SumEvents(_)
SumEvents(rows) ==
    IF rows = {} THEN 0
    ELSE LET r == CHOOSE r \in rows : TRUE
         IN  r.total_events + SumEvents(rows \ {r})

\* delta_sql: one row for each element of the target array
DeltaSql(names, window_days, wh) ==
    [k \in 1 .. Len(names) |->
        LET n == names[k]
            curr_events ==
                SumEvents({d \in wh.daily : d.repo_name = n /\ InCurrWindow(d.day, window_days)})
            prev_events ==
                SumEvents({d \in wh.daily : d.repo_name = n /\ InPrevWindow(d.day, window_days)})
            curr_contributors ==
                Cardinality({e.contributor : e \in
                    {e \in wh.stg : e.repo_name = n /\ InCurrWindow(e.day, window_days)}})
            prev_contributors ==
                Cardinality({e.contributor : e \in
                    {e \in wh.stg : e.repo_name = n /\ InPrevWindow(e.day, window_days)}})
        IN  [repo_name |-> n,
             curr_events |-> curr_events,
             prev_events |-> prev_events,
             curr_contributors |-> curr_contributors,
             prev_contributors |-> prev_contributors,
             activity_delta_window |-> curr_events - prev_events,
             contributors_delta_window |-> curr_contributors - prev_contributors]]

\* names = [r["repo_name"] for r in repos if REPO_NAME.match(...)]
MatchingNames(repos) ==
    LET keep == SelectSeq(repos, LAMBDA r : REPO_NAME_match(r.repo_name))
    IN  [k \in 1 .. Len(keep) |-> keep[k].repo_name]

\* lines 290-301: the entry of map_rows built from one result row
MapRow(r) ==
    [stars_total |-> r.curr_events,
     forks_total |-> r.curr_contributors,
     activity_delta_window |-> r.activity_delta_window,
     contributors_delta_window |-> r.contributors_delta_window,
     stars_delta_window |-> r.activity_delta_window,
     forks_delta_window |-> r.contributors_delta_window,
     has_baseline |-> (r.curr_events + r.curr_contributors > 0)
                        \/ (r.prev_events + r.prev_contributors > 0),
     has_exact_baseline |-> (r.curr_events + r.curr_contributors > 0)
                              /\ (r.prev_events + r.prev_contributors > 0)]

\* lines 310-321: the zero-filled row
BaseRow(r) ==
    [repo_name |-> Get(r, "repo_name", << >>),
     stars_total |-> Get(r, "stars_total", 0),
     forks_total |-> Get(r, "forks_total", 0),
     activity_delta_window |-> 0,
     contributors_delta_window |-> 0,
     stars_delta_window |-> 0,
     forks_delta_window |-> 0,
     last_activity_date |-> Get(r, "last_activity_date", ""),
     has_baseline |-> FALSE,
     has_exact_baseline |-> FALSE]

\* lines 307-325, given the rows the query returned (none when it raised)
MergeDeltas(repos, rows) ==
    [k \in 1 .. Len(repos) |->
        LET base == BaseRow(repos[k])
            hits == {j \in 1 .. Len(rows) : rows[j].repo_name = base.repo_name}
        IN  IF hits = {} THEN base
            ELSE Update(base, MapRow(rows[CHOOSE j \in hits : \A i \in hits : i <= j]))]

\* what run_query(delta_sql) does for attach_star_fork_deltas
DeltaQuery(repos, window_days, wh, fails) ==
    IF repos = << >> \/ MatchingNames(repos) = << >> THEN [did |-> "none", rows |-> << >>]
    ELSE IF fails THEN [did |-> "raised", rows |-> << >>]
    ELSE [did |-> "rows", rows |-> DeltaSql(MatchingNames(repos), window_days, wh)]

\* attach_star_fork_deltas(client, repos, window_days): the client is the
\* warehouse state and whether its query raises
attach_star_fork_deltas(repos, window_days, wh, fails) ==
    IF repos = << >> THEN << >>
    ELSE IF MatchingNames(repos) = << >> THEN repos
    ELSE MergeDeltas(repos, DeltaQuery(repos, window_days, wh, fails).rows)

MetricsNames == {RepoA, RepoB, RepoNoSlash}

MetricsInputs(n) ==
    SeqsUpTo({CandidateRow([full_name |-> name, pushed_at |-> "2024-01-01"]) :
                 name \in MetricsNames}, n)

MetricsStart ==
    /\ m_pc = "input"
    /\ m_repos \in MetricsInputs(MaxRepos)
    /\ m_window \in {7, 14}
    /\ m_query = "none"
    /\ m_rows = << >>
    /\ m_out = << >>

\* one call of attach_star_fork_deltas
MetricsCall ==
    /\ m_pc = "input"
    /\ \E wh \in Warehouses, fails \in BOOLEAN :
          /\ m_query' = DeltaQuery(m_repos, m_window, wh, fails).did
          /\ m_rows' = DeltaQuery(m_repos, m_window, wh, fails).rows
          /\ m_out' = attach_star_fork_deltas(m_repos, m_window, wh, fails)
    /\ m_pc' = "returned"
    /\ UNCHANGED <<m_repos, m_window>>
    /\ UNCHANGED <<s_vars, p_vars, r_vars, h_vars>>

DeltaFields ==
    {"activity_delta_window", "contributors_delta_window", "stars_delta_window",
     "forks_delta_window", "has_baseline", "has_exact_baseline"}

ZeroFilled(row) ==
    /\ DeltaFields \subseteq DOMAIN row
    /\ row.activity_delta_window = 0
    /\ row.contributors_delta_window = 0
    /\ row.stars_delta_window = 0
    /\ row.forks_delta_window = 0
    /\ ~row.has_baseline
    /\ ~row.has_exact_baseline

\* C8 (as claimed): for a non-empty candidate list attach_star_fork_deltas
\* returns one metrics row per input repository in input order, every row with
\* all delta and baseline fields; a repository the warehouse returned no row
\* for, or whose name fails the naming pattern, gets the zero-filled defaults.
C8_OneMetricsRowPerRepo ==
    (m_pc = "returned" /\ m_repos # << >>) =>
        /\ Len(m_out) = Len(m_repos)
        /\ \A k \in 1 .. Len(m_repos) :
              /\ m_out[k].repo_name = m_repos[k].repo_name
              /\ DeltaFields \subseteq DOMAIN m_out[k]
              /\ (\/ ~REPO_NAME_match(m_repos[k].repo_name)
                  \/ \A j \in 1 .. Len(m_rows) : m_rows[j].repo_name # m_repos[k].repo_name)
                    => ZeroFilled(m_out[k])

----------------------------------------------------------------------------
(* Ranking: build_trend_rows                                               *)

TOP_TREND == 2

\* longest list of metrics rows given to build_trend_rows
MaxRankRows == 3

\* lines 565-574: one cleaned row
clean_row(r) ==
    LET activity_delta == Get(r, "activity_delta_window", Get(r, "stars_delta_window", 0))
        contributors_delta ==
            Get(r, "contributors_delta_window", Get(r, "forks_delta_window", 0))
    IN  Update(r, [activity_delta_window |-> activity_delta,
                   contributors_delta_window |-> contributors_delta,
                   stars_delta_window |-> activity_delta,
                   forks_delta_window |-> contributors_delta,
                   delta_score |-> activity_delta + contributors_delta])

\* the sort key of line 578
SortKey(x) == <<x.delta_score, Get(x, "stars_total", 0), Get(x, "forks_total", 0)>>

\* tuple comparison a < b
TupleLess(a, b) ==
    \/ a[1] < b[1]
    \/ a[1] = b[1] /\ a[2] < b[2]
    \/ a[1] = b[1] /\ a[2] = b[2] /\ a[3] < b[3]

\* insertion that puts x before the rows of equal key
InsertDescBeforeEqual(sorted, x) ==
    LET before == {k \in 1 .. Len(sorted) : TupleLess(SortKey(x), SortKey(sorted[k]))}
        n == Cardinality(before)
    IN  SubSeq(sorted, 1, n) \o <<x>> \o SubSeq(sorted, n + 1, Len(sorted))

\* x goes behind every row whose key is not smaller: equal keys keep their order
InsertDesc(sorted, x) ==
    LET before == {k \in 1 .. Len(sorted) : ~TupleLess(SortKey(sorted[k]), SortKey(x))}
        n == Cardinality(before)
    IN  SubSeq(sorted, 1, n) \o <<x>> \o SubSeq(sorted, n + 1, Len(sorted))

\* sorted(cleaned, key=..., reverse=True): stable, descending
RECURSIVE SortedDescFrom(_, _)
SortedDescFrom(sorted, rest) ==
    IF rest = << >> THEN sorted
    ELSE SortedDescFrom(InsertDesc(sorted, Head(rest)), Tail(rest))

\* build_trend_rows: both members of the returned pair are this list
build_trend_rows(rows) ==
    LET cleaned == [k \in 1 .. Len(rows) |-> clean_row(rows[k])]
    IN  Take(SortedDescFrom(<< >>, cleaned), TOP_TREND)

RankNames == <<RepoA, RepoB, RepoC, RepoCodex>>

\* a metrics row as attach_star_fork_deltas builds it
MetricsRow(name, ad, cd, st, ft) ==
    [repo_name |-> name,
     stars_total |-> st,
     forks_total |-> ft,
     activity_delta_window |-> ad,
     contributors_delta_window |-> cd,
     stars_delta_window |-> ad,
     forks_delta_window |-> cd,
     last_activity_date |-> "2024-01-01",
     has_baseline |-> st + ft > 0,
     has_exact_baseline |-> FALSE]

\* a candidate row without the delta fields
BareRow(name) ==
    [repo_name |-> name, stars_total |-> 0, forks_total |-> 0,
     last_activity_date |-> "2024-01-01"]

\* the (activity delta, contributors delta) pairs of the rows given
RankDeltas == {<<0, 0>>, <<1, 0>>, <<1, -1>>}

\* the rows the k-th position of the input can hold
RankRowsAt(k) ==
    {BareRow(RankNames[k])} \cup
    {MetricsRow(RankNames[k], d[1], d[2], st, ft) :
        d \in RankDeltas, st \in {0, 1}, ft \in {0, 1}}

RECURSIVE RankInputsOfLen(_)
RankInputsOfLen(n) ==
    IF n = 0 THEN {<< >>}
    ELSE {Append(rows, r) : rows \in RankInputsOfLen(n - 1), r \in RankRowsAt(n)}

\* the lists of at most n rows
RankInputs(n) == UNION {RankInputsOfLen(k) : k \in 0 .. n}

RankStart ==
    /\ r_pc = "input"
    /\ r_in \in RankInputs(MaxRankRows)
    /\ r_out = << >>
    /\ r_again = << >>

RankBuild ==
    /\ r_pc = "input"
    /\ r_pc' = "ranked"
    /\ r_out' = build_trend_rows(r_in)
    /\ UNCHANGED <<r_in, r_again>>
    /\ UNCHANGED <<s_vars, p_vars, m_vars, h_vars>>

RankAgain ==
    /\ r_pc = "ranked"
    /\ r_pc' = "reranked"
    /\ r_again' = build_trend_rows(r_out)
    /\ UNCHANGED <<r_in, r_out>>
    /\ UNCHANGED <<s_vars, p_vars, m_vars, h_vars>>

\* the score and sort key the claim states, from the fields of an input row
ClaimedScore(r) ==
    (IF "activity_delta_window" \in DOMAIN r THEN r.activity_delta_window ELSE 0)
      + (IF "contributors_delta_window" \in DOMAIN r THEN r.contributors_delta_window ELSE 0)

InputOf(name) == CHOOSE k \in 1 .. Len(r_in) : r_in[k].repo_name = name

\* C10: build_trend_rows sets delta_score = activity_delta_window +
\* contributors_delta_window on each row, returns the rows sorted by
\* (delta_score, stars_total, forks_total) descending and cut to TOP_TREND, so a
\* higher delta_score always comes first; ranking its own output changes nothing.
C10_Ranking ==
    /\ r_pc \in {"ranked", "reranked"} =>
          /\ Len(r_out) = Min(TOP_TREND, Len(r_in))
          /\ \A k \in 1 .. Len(r_out) :
                /\ r_out[k].delta_score =
                      r_out[k].activity_delta_window + r_out[k].contributors_delta_window
                /\ \E j \in 1 .. Len(r_in) :
                      /\ r_in[j].repo_name = r_out[k].repo_name
                      /\ r_out[k].delta_score = ClaimedScore(r_in[j])
                      /\ r_out[k].stars_total = r_in[j].stars_total
                      /\ r_out[k].forks_total = r_in[j].forks_total
          /\ \A j, k \in 1 .. Len(r_out) :
                j < k =>
                   /\ ~TupleLess(<<r_out[j].delta_score, r_out[j].stars_total, r_out[j].forks_total>>,
                                 <<r_out[k].delta_score, r_out[k].stars_total, r_out[k].forks_total>>)
                   /\ r_out[j].delta_score >= r_out[k].delta_score
                   /\ r_out[j].repo_name # r_out[k].repo_name
          \* the rows cut off rank no higher than the rows kept
          /\ \A j \in 1 .. Len(r_in) :
                (\A k \in 1 .. Len(r_out) : r_out[k].repo_name # r_in[j].repo_name) =>
                   \A k \in 1 .. Len(r_out) :
                      ~TupleLess(<<r_out[k].delta_score, r_out[k].stars_total, r_out[k].forks_total>>,
                                 <<ClaimedScore(r_in[j]), r_in[j].stars_total, r_in[j].forks_total>>)
    /\ r_pc = "reranked" => r_again = r_out

\* a ranking that reorders, cuts off a row and keeps two rows of equal key,
\* ranked a second time
C10_Witness ==
    /\ r_pc = "reranked"
    /\ Len(r_in) > TOP_TREND
    /\ Len(r_out) = TOP_TREND
    /\ r_out[1].repo_name # r_in[1].repo_name
    /\ SortKey(r_out[1]) = SortKey(r_out[2])
    /\ r_out[1].stars_total > r_in[1].stars_total
    /\ r_out[1].delta_score > clean_row(r_in[1]).delta_score

----------------------------------------------------------------------------
(* Candidate Discovery: search_popular_repos                                *)

TREND_LIMIT == 2

\* longest `items` list of one search response
MaxItems == 2

Modes == {"trending", "balanced", "broad"}

\* the sub-query strings, without the common pushed:>= and -is:archived parts
PrimaryQueries(mode) ==
    IF mode = "trending"
    THEN <<"stars:>=100", "stars:>=40 forks:>=20", "forks:>=50">>
    ELSE IF mode = "balanced"
    THEN <<"stars:>=40", "forks:>=10">>
    ELSE <<"stars:>=10", "forks:>=2">>

FallbackQueries == <<"stars:>=5", "forks:>=1", "">>

ValidNames == {RepoA, RepoB, RepoC}

\* what the search API can return: pushed_at varies on a name that is kept
SearchItems ==
    [full_name : {RepoA}, pushed_at : PushedDates]
      \cup [full_name : RawNames \ {RepoA}, pushed_at : {"2024-01-01"}]

\* github_request_json: None (ok = FALSE) for a failed call or a non-200
\* answer, else the JSON payload with its `items`
FailedPayload == [ok |-> FALSE, items |-> << >>]
SearchPayloads ==
    {FailedPayload} \cup [ok : {TRUE}, items : SeqsUpTo(SearchItems, MaxItems)]

HasRepo(rows, name) == \E k \in 1 .. Len(rows) : rows[k].repo_name = name

\* fetch_item without the blacklist test
fetch_item_NoBlacklist(rows, it) ==
    LET name == it.full_name
    IN  IF name = << >> \/ ~REPO_NAME_match(name) THEN rows
        ELSE IF ~HasRepo(rows, name) THEN Append(rows, CandidateRow(it))
        ELSE rows

\* the body of `for it in payload.get("items", [])`
fetch_item(rows, it) ==
    LET name == it.full_name
    IN  IF name = << >> \/ ~REPO_NAME_match(name) THEN rows
        ELSE IF BLACKLIST_PATTERN_search(name) THEN rows
        ELSE IF ~HasRepo(rows, name) THEN Append(rows, CandidateRow(it))
        ELSE rows

RECURSIVE fetch_items(_, _)
fetch_items(rows, items) ==
    IF items = << >> THEN rows
    ELSE fetch_items(fetch_item(rows, Head(items)), Tail(items))

\* one iteration of `for q in query_list`
fetch_query(rows, payload) ==
    IF ~payload.ok THEN rows ELSE fetch_items(rows, payload.items)

\* fetch(query_list), given the payload each sub-query got
RECURSIVE fetch_from(_, _)
fetch_from(rows, payloads) ==
    IF payloads = << >> THEN rows
    ELSE fetch_from(fetch_query(rows, Head(payloads)), Tail(payloads))

fetch(payloads) == fetch_from(<< >>, payloads)

\* search_popular_repos, given the payloads of the primary and of the fallback
\* sub-queries
search_popular_repos(primary, fallback) ==
    LET results == fetch(primary)
    IN  Take(IF results = << >> THEN fetch(fallback) ELSE results, TREND_LIMIT)

\* history only: what the claim calls acceptable, and the first occurrences
Acceptable(name) ==
    name # << >> /\ REPO_NAME_match(name) /\ ~BLACKLIST_PATTERN_search(name)

\* the acceptable names of items that are new to `first`, each at its first index
NewAt(first, items) ==
    { k \in 1 .. Len(items) :
        /\ Acceptable(items[k].full_name)
        /\ \A g \in first : g.name # items[k].full_name
        /\ \A j \in 1 .. k - 1 : items[j].full_name # items[k].full_name }

\* rank = the number of acceptable names that occurred no later than this one
FirstSeen(first, payload) ==
    IF ~payload.ok THEN first
    ELSE LET items == payload.items
             new == NewAt(first, items)
         IN  first \cup
             { [name |-> items[k].full_name,
                rank |-> Cardinality(first) + Cardinality({j \in new : j <= k}),
                pushed |-> items[k].pushed_at] : k \in new }

FailedAfter(failed, payload, before, after) ==
    IF ~payload.ok /\ failed = "no" THEN "failed"
    ELSE IF failed = "failed" /\ Len(after) > Len(before) THEN "recovered"
    ELSE failed

SearchStart ==
    /\ s_mode \in Modes
    /\ s_pc = "primary"
    /\ s_i = 1
    /\ s_rows = << >>
    /\ s_issued = << >>
    /\ s_failed = "no"
    /\ s_first = {}
    /\ s_results = << >>

\* one sub-query of fetch(queries)
SearchPrimaryQuery ==
    /\ s_pc = "primary"
    /\ s_i <= Len(PrimaryQueries(s_mode))
    /\ \E payload \in SearchPayloads :
          LET rows == fetch_query(s_rows, payload)
          IN  /\ s_rows' = rows
              /\ s_issued' = Append(s_issued,
                    [q |-> PrimaryQueries(s_mode)[s_i], nonempty |-> rows # << >>])
              /\ s_failed' = FailedAfter(s_failed, payload, s_rows, rows)
              /\ s_first' = FirstSeen(s_first, payload)
    /\ s_i' = s_i + 1
    /\ UNCHANGED <<s_mode, s_pc, s_results>>
    /\ UNCHANGED <<p_vars, r_vars, m_vars, h_vars>>

\* results = fetch(queries); if not results: start fetch(fallback_queries)
SearchPrimaryDone ==
    /\ s_pc = "primary"
    /\ s_i > Len(PrimaryQueries(s_mode))
    /\ IF s_rows = << >>
       THEN /\ s_pc' = "fallback"
            /\ s_i' = 1
            /\ UNCHANGED s_results
       ELSE /\ s_pc' = "done"
            /\ s_results' = Take(s_rows, TREND_LIMIT)
            /\ UNCHANGED s_i
    /\ UNCHANGED <<s_mode, s_rows, s_issued, s_failed, s_first>>
    /\ UNCHANGED <<p_vars, r_vars, m_vars, h_vars>>

\* one sub-query of fetch(fallback_queries)
SearchFallbackQuery ==
    /\ s_pc = "fallback"
    /\ s_i <= Len(FallbackQueries)
    /\ \E payload \in SearchPayloads :
          LET rows == fetch_query(s_rows, payload)
          IN  /\ s_rows' = rows
              /\ s_issued' = Append(s_issued,
                    [q |-> FallbackQueries[s_i], nonempty |-> rows # << >>])
              /\ s_failed' = FailedAfter(s_failed, payload, s_rows, rows)
              /\ s_first' = FirstSeen(s_first, payload)
    /\ s_i' = s_i + 1
    /\ UNCHANGED <<s_mode, s_pc, s_results>>
    /\ UNCHANGED <<p_vars, r_vars, m_vars, h_vars>>

\* return results[:TREND_LIMIT]
SearchReturn ==
    /\ s_pc = "fallback"
    /\ s_i > Len(FallbackQueries)
    /\ s_pc' = "done"
    /\ s_results' = Take(s_rows, TREND_LIMIT)
    /\ UNCHANGED <<s_mode, s_i, s_rows, s_issued, s_failed, s_first>>
    /\ UNCHANGED <<p_vars, r_vars, m_vars, h_vars>>

\* the rows are the first occurrences of the acceptable names, in order of
\* occurrence, each with the pushed date of that first occurrence
FirstOccurrenceRows(rows, n) ==
    /\ Len(rows) = n
    /\ \A k \in 1 .. n :
          \E g \in s_first :
             /\ g.rank = k
             /\ rows[k].repo_name = g.name
             /\ rows[k].last_activity_date = g.pushed

PrimaryYieldedNothing ==
    ~s_issued[Len(PrimaryQueries(s_mode))].nonempty

\* C6: search_popular_repos returns at most TREND_LIMIT rows with pairwise
\* distinct names, each matching the owner/name pattern and not blacklisted;
\* the rows are in order of first occurrence across the sub-queries and each
\* row is the one of the first occurrence of its name; a failed sub-query adds
\* nothing and every sub-query of the list is still sent.
C6_SearchResult ==
    /\ FirstOccurrenceRows(s_rows, Cardinality(s_first))
    /\ s_pc = "done" =>
          /\ Len(s_results) <= TREND_LIMIT
          /\ \A j, k \in 1 .. Len(s_results) :
                j # k => s_results[j].repo_name # s_results[k].repo_name
          /\ \A k \in 1 .. Len(s_results) :
                /\ REPO_NAME_match(s_results[k].repo_name)
                /\ ~BLACKLIST_PATTERN_search(s_results[k].repo_name)
          /\ FirstOccurrenceRows(s_results, Min(TREND_LIMIT, Cardinality(s_first)))
          /\ [k \in 1 .. Len(s_issued) |-> s_issued[k].q] =
                IF PrimaryYieldedNothing
                THEN PrimaryQueries(s_mode) \o FallbackQueries
                ELSE PrimaryQueries(s_mode)

\* a run with more acceptable names than TREND_LIMIT, in which a sub-query
\* failed and a later one added a row
C6_Witness ==
    /\ s_pc = "done"
    /\ Len(s_results) = TREND_LIMIT
    /\ Cardinality(s_first) > TREND_LIMIT
    /\ s_failed = "recovered"

\* C7 (as claimed): a fallback filter is sent only if every stricter fallback
\* filter before it left the result empty, and no fallback filter is sent when
\* the primary result is non-empty.
C7_FallbackStopsAtFirstHit ==
    \A p \in 1 .. Len(s_issued) :
        p > Len(PrimaryQueries(s_mode)) => ~s_issued[p - 1].nonempty

----------------------------------------------------------------------------
(* The user-event query and the Network Builder queries                    *)

EDGE_LIMIT == 400

\* the characters of the model in code-point order, as strings compare in SQL
CodePointOrder ==
    <<"\n", " ", "+", "-", ".", "/", "0", "1", "2", "3", "4", "5", "6", "7", "8", "9",
      "A", "C", "D", "E", "L", "O", "U", "X", "_",
      "a", "b", "c", "d", "e", "i", "l", "o", "p", "t", "u", "x">>

CodePoint(c) == CHOOSE i \in 1 .. Len(CodePointOrder) : CodePointOrder[i] = c

\* a < b on strings
RECURSIVE StrLess(_, _)
StrLess(a, b) ==
    IF b = << >> THEN FALSE
    ELSE IF a = << >> THEN TRUE
    ELSE IF Head(a) # Head(b) THEN CodePoint(Head(a)) < CodePoint(Head(b))
    ELSE StrLess(Tail(a), Tail(b))

\* NOT REGEXP_CONTAINS(LOWER(contributor), r'(copilot|claude|codex)')
NotBlacklistedContributor(c) ==
    LET lower == [k \in 1 .. Len(c) |-> ToLower(c[k])]
    IN  ~\E w \in BlacklistWords :
           \E i \in 1 .. Len(lower) - Len(w) + 1 :
              \A j \in 1 .. Len(w) : lower[i + j - 1] = w[j]

Occurrences(names, n) == Cardinality({k \in 1 .. Len(names) : names[k] = n})

\* event_sql: one row for each element of the target array; the JOIN with the
\* target array repeats a repository's activity rows once per occurrence
UserEventSql(names, window_days, wh) ==
    [k \in 1 .. Len(names) |->
        LET n == names[k]
            curr == Occurrences(names, n) *
                SumEvents({d \in wh.daily : d.repo_name = n /\ InCurrWindow(d.day, window_days)})
            prev == Occurrences(names, n) *
                SumEvents({d \in wh.daily : d.repo_name = n /\ InPrevWindow(d.day, window_days)})
            cc == Cardinality({e.contributor : e \in
                    {e \in wh.stg : /\ e.repo_name = n
                                    /\ InCurrWindow(e.day, window_days)
                                    /\ NotBlacklistedContributor(e.contributor)}})
            pc_ == Cardinality({e.contributor : e \in
                    {e \in wh.stg : /\ e.repo_name = n
                                    /\ InPrevWindow(e.day, window_days)
                                    /\ NotBlacklistedContributor(e.contributor)}})
        IN  [repo_name |-> n,
             curr_event_count |-> curr,
             prev_event_count |-> prev,
             curr_contributor_count |-> cc,
             prev_contributor_count |-> pc_,
             event_delta |-> curr - prev,
             contributor_delta |-> cc - pc_]]

ZeroStats ==
    [event_delta |-> 0, contributor_delta |-> 0, curr_event_count |-> 0,
     prev_event_count |-> 0, curr_contributor_count |-> 0, prev_contributor_count |-> 0]

\* lines 409-419: the entry of row_map built from one result row
StatsOf(r) ==
    [event_delta |-> r.event_delta, contributor_delta |-> r.contributor_delta,
     curr_event_count |-> r.curr_event_count, prev_event_count |-> r.prev_event_count,
     curr_contributor_count |-> r.curr_contributor_count,
     prev_contributor_count |-> r.prev_contributor_count]

\* attach_user_event_deltas; raised = TRUE where run_query raises, which the
\* function does not catch
attach_user_event_deltas(repos, window_days, wh, fails) ==
    IF repos = << >> \/ MatchingNames(repos) = << >> THEN [raised |-> FALSE, rows |-> << >>]
    ELSE IF fails THEN [raised |-> TRUE, rows |-> << >>]
    ELSE LET rows == UserEventSql(MatchingNames(repos), window_days, wh)
         IN  [raised |-> FALSE,
              rows |-> [k \in 1 .. Len(repos) |->
                 LET name == Get(repos[k], "repo_name", << >>)
                     hits == {j \in 1 .. Len(rows) : rows[j].repo_name = name}
                 IN  Update([repo_name |-> name],
                            IF hits = {} THEN ZeroStats
                            ELSE StatsOf(rows[CHOOSE j \in hits : \A i \in hits : i <= j]))]]

\* the CTE repo_contributors of both network queries
RepoContributors(names, window_days, wh) ==
    { <<e.repo_name, e.contributor>> : e \in
        {e \in wh.stg : /\ \E k \in 1 .. Len(names) : names[k] = e.repo_name
                        /\ InCurrWindow(e.day, window_days)
                        /\ NotBlacklistedContributor(e.contributor)} }

\* the CTE paired of both network queries
Paired(names, window_days, wh) ==
    LET rc == RepoContributors(names, window_days, wh)
        repos == {x[1] : x \in rc}
        shared(a, b) == {x[2] : x \in {x \in rc : x[1] = a}} \cap {x[2] : x \in {x \in rc : x[1] = b}}
    IN  { [source_repo |-> a, target_repo |-> b,
           shared_contributor_count |-> Cardinality(shared(a, b))] :
             <<a, b>> \in {ab \in repos \X repos :
                             StrLess(ab[1], ab[2]) /\ shared(ab[1], ab[2]) # {}} }

\* the orders in which a query may return `rows` under ORDER BY field DESC
DescOrders(rows, field) ==
    {q \in [1 .. Cardinality(rows) -> rows] :
        /\ \A i, j \in 1 .. Cardinality(rows) : i # j => q[i] # q[j]
        /\ \A i, j \in 1 .. Cardinality(rows) : i < j => q[i][field] >= q[j][field]}

\* the results the edge query of fetch_repo_relation_edges may return
EdgeResults(names, window_days, min_shared, wh) ==
    {Take(q, EDGE_LIMIT) :
       q \in DescOrders({e \in Paired(names, window_days, wh) :
                            e.shared_contributor_count >= min_shared},
                        "shared_contributor_count")}

RECURSIVE SumDegree(_)
SumDegree(rows) ==
    IF rows = {} THEN 0
    ELSE LET r == CHOOSE r \in rows : TRUE
         IN  r.shared_contributor_count + SumDegree(rows \ {r})

\* the results the degree query of fetch_edge_chart_rows may return
DegreeResults(names, window_days, top_n, wh) ==
    LET paired == Paired(names, window_days, wh)
        repos == {e.source_repo : e \in paired} \cup {e.target_repo : e \in paired}
        degree == { [repo_name |-> n,
                     degree |-> SumDegree({e \in paired : e.source_repo = n \/ e.target_repo = n})] :
                       n \in repos }
    IN  {Take(q, top_n) : q \in DescOrders(degree, "degree")}

----------------------------------------------------------------------------
(* The service: the dashboard cache, its lock, and index()                 *)

CACHE_TTL_SECONDS == 1

\* the clock stops at MaxTime
MaxTime == 2

\* datetime.utcnow(): a reading not before the last one
utcnow == now .. MaxTime

\* requests accepted in a run
MaxRequests == 2

Threads == {"t1", "t2"}

Free == "free"

\* a key without entry, and the tuple (datetime.utcnow(), value)
Absent == [has |-> FALSE]
Entry(exp, value) == [has |-> TRUE, exp |-> exp, value |-> value]

\* _cache_get returning None, or the payload
Miss == [hit |-> FALSE]
Hit(value) == [hit |-> TRUE, value |-> value]

CacheKeys ==
    {dashboard_cache_key(w, "trending", n, p) :
        w \in allowed_window_days, n \in BOOLEAN, p \in {ProjectA, NotSetProject}}

\* line 47 with >= in place of >
Expired_AtTtl(exp, t) == t - exp >= CACHE_TTL_SECONDS

\* line 47: (datetime.utcnow() - exp).total_seconds() > CACHE_TTL_SECONDS
Expired(exp, t) == t - exp > CACHE_TTL_SECONDS

\* a lock that never makes a thread wait
CanAcquire_NoWait(l) == TRUE

\* `with _CACHE_LOCK`: the thread enters when no thread holds the lock
CanAcquire(l) == l = Free

ClientInitFailed == "BigQuery client init failed"
NoReposFound == "No popular repositories found for this window/mode."
TrendQueryFailed == "Trend query failed"
EdgeQueryFailed == "edge query failed"

\* fetch_pipeline_status: None, or the latest run
StatusNone == [none |-> TRUE]
StatusRow ==
    [none |-> FALSE, run_id |-> "run-1", dag_id |-> "dag", status |-> "success",
     executed_for_date |-> "2024-01-01", run_started_at |-> "2024-01-02",
     raw_events_rows |-> 10]

\* lines 609-629 of index(), before the request parameters are read
InitLocals(args) ==
    [args |-> args,
     window_days |-> 0,
     include_network |-> FALSE,
     project_for_view |-> NotSetProject,
     cache_key |-> << >>,
     entry |-> Absent,
     cached |-> Miss,
     repos |-> << >>,
     trend_with_delta |-> << >>,
     trend_rows |-> << >>,
     trend_chart_rows |-> << >>,
     user_event_rows |-> << >>,
     user_event_chart_rows |-> << >>,
     edge_rows |-> << >>,
     edge_chart_rows |-> << >>,
     edge_graph_rows |-> << >>,
     trend_error |-> None,
     trend_warning |-> None,
     edge_error |-> None,
     pipeline_status |-> StatusNone]

NoHistory ==
    [calls |-> << >>, failed |-> {}, stored |-> Absent, snap |-> Absent, read_at |-> 0]

\* the dict given to _cache_set (lines 680-692)
PayloadOf(l) ==
    [trend_rows |-> l.trend_rows,
     trend_chart_rows |-> l.trend_chart_rows,
     user_event_rows |-> l.user_event_rows,
     user_event_chart_rows |-> l.user_event_chart_rows,
     edge_rows |-> l.edge_rows,
     edge_chart_rows |-> l.edge_chart_rows,
     edge_graph_rows |-> l.edge_graph_rows,
     trend_error |-> l.trend_error,
     trend_warning |-> l.trend_warning,
     edge_error |-> l.edge_error,
     pipeline_status |-> l.pipeline_status]

\* the requests, the search answers and the warehouse states the service meets
HandlerArgs ==
    { [window |-> NotGiven, network |-> NotGiven],
      [window |-> Given(<<"7">>), network |-> NotGiven],
      [window |-> Given(<<"7">>), network |-> Given(Txt0)] }

OkPayload(items) == [ok |-> TRUE, items |-> items]
ItemA == [full_name |-> RepoA, pushed_at |-> "2024-01-01"]
ItemB == [full_name |-> RepoB, pushed_at |-> "2024-02-02"]
ItemCodex == [full_name |-> RepoCodex, pushed_at |-> "2024-01-01"]

SearchRunNothing ==
    [primary |-> <<FailedPayload, FailedPayload, FailedPayload>>,
     fallback |-> <<FailedPayload, OkPayload(<< >>), OkPayload(<<ItemCodex>>)>>]

SearchRunTwo ==
    [primary |-> <<OkPayload(<<ItemA, ItemB>>), FailedPayload, OkPayload(<<ItemB>>)>>,
     fallback |-> <<FailedPayload, FailedPayload, FailedPayload>>]

HandlerSearchRuns == {SearchRunNothing, SearchRunTwo}

EmptyWarehouse == [stg |-> {}, daily |-> {}, runs |-> << >>]

HandlerWarehouses ==
    { EmptyWarehouse,
      [stg |-> {[repo_name |-> RepoA, day |-> 0, contributor |-> Alice],
                [repo_name |-> RepoA, day |-> 0, contributor |-> ClaudeBot],
                [repo_name |-> RepoB, day |-> 0, contributor |-> Alice]},
       daily |-> {[repo_name |-> RepoA, day |-> 0, total_events |-> 1]},
       runs |-> <<StatusRow>>] }

NoLocals == InitLocals([window |-> NotGiven, network |-> NotGiven])

Local(t, field) == loc[t][field]

SetLocals(t, u) == loc' = [loc EXCEPT ![t] = Update(loc[t], u)]

Called(t, name) == Append(hist[t].calls, name)

\* requests accepted in a run of the cache alone, where three are needed for
\* a pop next to the entry of another key
MaxCacheRequests == 3

\* a request arrives at a free thread, while fewer than `limit` have arrived
Arrive(t, limit) ==
    /\ pc[t] \in {"idle", "done"}
    /\ served < limit
    /\ served' = served + 1
    /\ \E args \in HandlerArgs : loc' = [loc EXCEPT ![t] = InitLocals(args)]
    /\ pc' = [pc EXCEPT ![t] = "start"]
    /\ UNCHANGED <<gcp_project, warehouse, now, lock, cache, hist, last_set, search_calls>>
    /\ UNCHANGED <<s_vars, p_vars, r_vars, m_vars>>

Request(t) == Arrive(t, MaxRequests)

\* lines 598-599: no window parameter
Redirect(t) ==
    /\ pc[t] = "start"
    /\ ~Local(t, "args").window.given
    /\ loc' = [loc EXCEPT ![t] = NoLocals]
    /\ pc' = [pc EXCEPT ![t] = "done"]
    /\ UNCHANGED <<gcp_project, warehouse, now, lock, cache, served, hist, last_set, search_calls>>
    /\ UNCHANGED <<s_vars, p_vars, r_vars, m_vars>>

\* lines 601-631: parameters, project and cache key
Parse(t) ==
    /\ pc[t] = "start"
    /\ Local(t, "args").window.given
    /\ LET window_days == effective_window(Local(t, "args").window)
           include_network == include_network_of(Local(t, "args").network)
           project_for_view == project_for_view_of(gcp_project)
       IN  SetLocals(t, [window_days |-> window_days,
                         include_network |-> include_network,
                         project_for_view |-> project_for_view,
                         trend_error |-> IF gcp_project = None THEN ClientInitFailed ELSE None,
                         cache_key |-> dashboard_cache_key(window_days, "trending",
                                                           include_network, project_for_view)])
    /\ pc' = [pc EXCEPT ![t] = "get_lock"]
    /\ UNCHANGED <<gcp_project, warehouse, now, lock, cache, served, hist, last_set, search_calls>>
    /\ UNCHANGED <<s_vars, p_vars, r_vars, m_vars>>

\* line 48 if pop emptied the dictionary
Popped_ClearAll(c, key) == [k \in DOMAIN c |-> Absent]

\* line 48: _DASHBOARD_CACHE.pop(key, None)
Popped(c, key) == [c EXCEPT ![key] = Absent]

\* line 55: _DASHBOARD_CACHE[key] = entry
Stored(c, key, entry) == [c EXCEPT ![key] = entry]

\* _cache_get, line 42: with _CACHE_LOCK
GetLock(t) ==
    /\ pc[t] = "get_lock"
    /\ CanAcquire(lock)
    /\ lock' = t
    /\ hist' = [hist EXCEPT ![t].calls = Called(t, "cache_get")]
    /\ pc' = [pc EXCEPT ![t] = "get_read"]
    /\ UNCHANGED <<gcp_project, warehouse, now, cache, loc, served, last_set, search_calls>>
    /\ UNCHANGED <<s_vars, p_vars, r_vars, m_vars>>

\* _cache_get, lines 43-45: entry = _DASHBOARD_CACHE.get(key)
GetRead(t) ==
    /\ pc[t] = "get_read"
    /\ LET entry == cache[Local(t, "cache_key")]
       IN  IF ~entry.has
           THEN /\ SetLocals(t, [entry |-> Absent, cached |-> Miss])
                /\ pc' = [pc EXCEPT ![t] = "get_unlock"]
           ELSE /\ SetLocals(t, [entry |-> entry])
                /\ pc' = [pc EXCEPT ![t] = "get_check"]
    /\ hist' = [hist EXCEPT ![t].snap = last_set[Local(t, "cache_key")],
                            ![t].read_at = now]
    /\ UNCHANGED <<gcp_project, warehouse, now, lock, cache, served, last_set, search_calls>>
    /\ UNCHANGED <<s_vars, p_vars, r_vars, m_vars>>

\* _cache_get, lines 46-50: the expiry test
GetCheck(t) ==
    /\ pc[t] = "get_check"
    /\ \E reading \in utcnow :
          /\ now' = reading
          /\ IF Expired(Local(t, "entry").exp, reading)
             THEN /\ pc' = [pc EXCEPT ![t] = "get_pop"]
                  /\ UNCHANGED loc
             ELSE /\ SetLocals(t, [cached |-> Hit(Local(t, "entry").value)])
                  /\ pc' = [pc EXCEPT ![t] = "get_unlock"]
          /\ hist' = [hist EXCEPT ![t].snap = last_set[Local(t, "cache_key")],
                                  ![t].read_at = reading]
    /\ UNCHANGED <<gcp_project, warehouse, lock, cache, served, last_set, search_calls>>
    /\ UNCHANGED <<s_vars, p_vars, r_vars, m_vars>>

\* _cache_get, lines 48-49: _DASHBOARD_CACHE.pop(key, None); return None
GetPop(t) ==
    /\ pc[t] = "get_pop"
    /\ cache' = Popped(cache, Local(t, "cache_key"))
    /\ SetLocals(t, [cached |-> Miss])
    /\ pc' = [pc EXCEPT ![t] = "get_unlock"]
    /\ UNCHANGED <<gcp_project, warehouse, now, lock, served, hist, last_set, search_calls>>
    /\ UNCHANGED <<s_vars, p_vars, r_vars, m_vars>>

\* _cache_get: leaving the with block
GetUnlock(t) ==
    /\ pc[t] = "get_unlock"
    /\ lock' = Free
    /\ pc' = [pc EXCEPT ![t] = "got"]
    /\ UNCHANGED <<gcp_project, warehouse, now, cache, loc, served, hist, last_set, search_calls>>
    /\ UNCHANGED <<s_vars, p_vars, r_vars, m_vars>>

\* lines 633-645: the cached payload fills the page
UseCached(t) ==
    /\ pc[t] = "got"
    /\ Local(t, "cached").hit
    /\ SetLocals(t, Local(t, "cached").value)
    /\ pc' = [pc EXCEPT ![t] = "render"]
    /\ UNCHANGED <<gcp_project, warehouse, now, lock, cache, served, hist, last_set, search_calls>>
    /\ UNCHANGED <<s_vars, p_vars, r_vars, m_vars>>

\* lines 647-651: bigquery.Client(project=...)
ClientInit(t) ==
    /\ pc[t] = "got"
    /\ ~Local(t, "cached").hit
    /\ \E ok \in BOOLEAN :
          IF ok
          THEN /\ pc' = [pc EXCEPT ![t] = "status"]
               /\ hist' = [hist EXCEPT ![t].calls = Called(t, "client")]
               /\ UNCHANGED loc
          ELSE /\ pc' = [pc EXCEPT ![t] = "render"]
               /\ hist' = [hist EXCEPT ![t].calls = Called(t, "client"),
                                       ![t].failed = @ \cup {"client"}]
               /\ SetLocals(t, [trend_error |-> ClientInitFailed])
    /\ UNCHANGED <<gcp_project, warehouse, now, lock, cache, served, last_set, search_calls>>
    /\ UNCHANGED <<s_vars, p_vars, r_vars, m_vars>>

\* line 655: fetch_pipeline_status; _pipeline_runs_table() raises outside its
\* try block when no project id is configured (line 448)
PipelineStatus(t) ==
    /\ pc[t] = "status"
    /\ IF gcp_project = None
       THEN /\ pc' = [pc EXCEPT ![t] = "render"]
            /\ hist' = [hist EXCEPT ![t].calls = Called(t, "pipeline_status"),
                                    ![t].failed = @ \cup {"project"}]
            /\ SetLocals(t, [trend_error |-> TrendQueryFailed])
       ELSE /\ pc' = [pc EXCEPT ![t] = "search"]
            /\ hist' = [hist EXCEPT ![t].calls = Called(t, "pipeline_status")]
            /\ \E fails \in BOOLEAN :
                  SetLocals(t, [pipeline_status |->
                      IF fails \/ warehouse.runs = << >> THEN StatusNone
                      ELSE warehouse.runs[1]])
    /\ UNCHANGED <<gcp_project, warehouse, now, lock, cache, served, last_set, search_calls>>
    /\ UNCHANGED <<s_vars, p_vars, r_vars, m_vars>>

\* lines 653-693 seen from the cache: the request either fails before line 678
\* and stores nothing, or composes a payload (here one whose edge query failed)
Composed(window_days, include_network, wh, fails) ==
    LET repos == search_popular_repos(SearchRunTwo.primary, SearchRunTwo.fallback)
        trend_with_delta == attach_star_fork_deltas(repos, window_days, wh, fails)
        trend_rows == build_trend_rows(trend_with_delta)
        user_event_rows == attach_user_event_deltas(trend_rows, window_days, wh, FALSE).rows
    IN  [repos |-> repos,
         trend_with_delta |-> trend_with_delta,
         trend_rows |-> trend_rows,
         trend_chart_rows |-> trend_rows,
         user_event_rows |-> user_event_rows,
         user_event_chart_rows |-> user_event_rows,
         edge_error |-> IF include_network THEN EdgeQueryFailed ELSE None,
         pipeline_status |-> IF wh.runs = << >> THEN StatusNone ELSE wh.runs[1]]

\* line 656: the arguments of the call of search_popular_repos, and the last
\* reading of the clock before it
SearchCall(t) ==
    [trend_mode |-> "trending", window_days |-> Local(t, "window_days"), at |-> now]

Recompute(t) ==
    /\ pc[t] = "got"
    /\ ~Local(t, "cached").hit
    /\ \E stores \in BOOLEAN, fails \in BOOLEAN, searched \in BOOLEAN :
          IF stores
          THEN /\ searched
               /\ SetLocals(t, Composed(Local(t, "window_days"),
                                        Local(t, "include_network"), warehouse, fails))
               /\ pc' = [pc EXCEPT ![t] = "set_lock"]
               /\ search_calls' = Append(search_calls, SearchCall(t))
          ELSE /\ SetLocals(t, [trend_error |-> TrendQueryFailed])
               /\ pc' = [pc EXCEPT ![t] = "render"]
               /\ search_calls' = IF searched
                                  THEN Append(search_calls, SearchCall(t))
                                  ELSE search_calls
    /\ hist' = [hist EXCEPT ![t].calls = Called(t, "recompute")]
    /\ UNCHANGED <<gcp_project, warehouse, now, lock, cache, served, last_set>>
    /\ UNCHANGED <<s_vars, p_vars, r_vars, m_vars>>

\* where index() goes after search_popular_repos, if the empty list were not tested
AfterSearch_NoEmptyTest(repos) == "deltas"

\* lines 657-659: if not repos
AfterSearch(repos) == IF repos = << >> THEN "render" ELSE "deltas"

\* lines 656-658: Candidate Discovery
Search(t) ==
    /\ pc[t] = "search"
    /\ \E run \in HandlerSearchRuns :
          LET repos == search_popular_repos(run.primary, run.fallback)
          IN  /\ pc' = [pc EXCEPT ![t] = AfterSearch(repos)]
              /\ SetLocals(t, [repos |-> repos,
                               trend_error |-> IF AfterSearch(repos) = "render"
                                               THEN NoReposFound
                                               ELSE Local(t, "trend_error")])
    /\ hist' = [hist EXCEPT ![t].calls = Called(t, "search")]
    /\ search_calls' = Append(search_calls, SearchCall(t))
    /\ UNCHANGED <<gcp_project, warehouse, now, lock, cache, served, last_set>>
    /\ UNCHANGED <<s_vars, p_vars, r_vars, m_vars>>

\* line 660: Metrics Aggregation
Deltas(t) ==
    /\ pc[t] = "deltas"
    /\ \E wh \in {warehouse}, fails \in BOOLEAN :
          /\ SetLocals(t, [trend_with_delta |->
                attach_star_fork_deltas(Local(t, "repos"), Local(t, "window_days"), wh, fails)])
          /\ hist' = [hist EXCEPT
                ![t].calls = Called(t, "metrics"),
                ![t].failed = IF DeltaQuery(Local(t, "repos"), Local(t, "window_days"),
                                            wh, fails).did = "raised"
                              THEN @ \cup {"delta_query"} ELSE @]
    /\ pc' = [pc EXCEPT ![t] = "rank"]
    /\ UNCHANGED <<gcp_project, warehouse, now, lock, cache, served, last_set, search_calls>>
    /\ UNCHANGED <<s_vars, p_vars, r_vars, m_vars>>

\* line 663: Ranking
Rank(t) ==
    /\ pc[t] = "rank"
    /\ SetLocals(t, [trend_rows |-> build_trend_rows(Local(t, "trend_with_delta")),
                     trend_chart_rows |-> build_trend_rows(Local(t, "trend_with_delta"))])
    /\ hist' = [hist EXCEPT ![t].calls = Called(t, "ranking")]
    /\ pc' = [pc EXCEPT ![t] = "user_events"]
    /\ UNCHANGED <<gcp_project, warehouse, now, lock, cache, served, last_set, search_calls>>
    /\ UNCHANGED <<s_vars, p_vars, r_vars, m_vars>>

\* lines 665-668: the user-event query; its exception reaches line 694
UserEvents(t) ==
    /\ pc[t] = "user_events"
    /\ \E wh \in {warehouse}, fails \in BOOLEAN :
          LET r == attach_user_event_deltas(Local(t, "trend_rows"),
                                            Local(t, "window_days"), wh, fails)
          IN  IF r.raised
              THEN /\ SetLocals(t, [trend_error |-> TrendQueryFailed])
                   /\ hist' = [hist EXCEPT ![t].calls = Called(t, "user_events"),
                                           ![t].failed = @ \cup {"user_event_query"}]
                   /\ pc' = [pc EXCEPT ![t] = "render"]
              ELSE /\ SetLocals(t, [user_event_rows |-> r.rows,
                                    user_event_chart_rows |-> r.rows])
                   /\ hist' = [hist EXCEPT ![t].calls = Called(t, "user_events")]
                   /\ pc' = [pc EXCEPT ![t] =
                         IF Local(t, "include_network") THEN "edges" ELSE "set_lock"]
    /\ UNCHANGED <<gcp_project, warehouse, now, lock, cache, served, last_set, search_calls>>
    /\ UNCHANGED <<s_vars, p_vars, r_vars, m_vars>>

\* line 669: repo_names = [r["repo_name"] for r in trend_rows if r.get("repo_name")]
RepoNamesOf(trend_rows) ==
    LET keep == SelectSeq(trend_rows, LAMBDA r : Get(r, "repo_name", << >>) # << >>)
    IN  [k \in 1 .. Len(keep) |-> keep[k].repo_name]

\* line 671: fetch_repo_relation_edges(client, repo_names, window_days, 1)
Edges(t) ==
    /\ pc[t] = "edges"
    /\ \E wh \in {warehouse}, fails \in BOOLEAN :
          IF RepoNamesOf(Local(t, "trend_rows")) # << >> /\ fails
          THEN /\ SetLocals(t, [edge_error |-> EdgeQueryFailed])
               /\ hist' = [hist EXCEPT ![t].calls = Called(t, "edges"),
                                       ![t].failed = @ \cup {"edge_query"}]
               /\ pc' = [pc EXCEPT ![t] = "set_lock"]
          ELSE /\ \E rows \in IF RepoNamesOf(Local(t, "trend_rows")) = << >> THEN {<< >>}
                              ELSE EdgeResults(RepoNamesOf(Local(t, "trend_rows")),
                                               Local(t, "window_days"), 1, wh) :
                     SetLocals(t, [edge_rows |-> rows])
               /\ hist' = [hist EXCEPT ![t].calls = Called(t, "edges")]
               /\ pc' = [pc EXCEPT ![t] = "chart"]
    /\ UNCHANGED <<gcp_project, warehouse, now, lock, cache, served, last_set, search_calls>>
    /\ UNCHANGED <<s_vars, p_vars, r_vars, m_vars>>

\* lines 672-675: fetch_edge_chart_rows(client, repo_names, window_days, 15)
Chart(t) ==
    /\ pc[t] = "chart"
    /\ \E wh \in {warehouse}, fails \in BOOLEAN :
          IF RepoNamesOf(Local(t, "trend_rows")) # << >> /\ fails
          THEN /\ SetLocals(t, [edge_error |-> EdgeQueryFailed])
               /\ hist' = [hist EXCEPT ![t].calls = Called(t, "edge_chart"),
                                       ![t].failed = @ \cup {"chart_query"}]
          ELSE /\ \E rows \in IF RepoNamesOf(Local(t, "trend_rows")) = << >> THEN {<< >>}
                              ELSE DegreeResults(RepoNamesOf(Local(t, "trend_rows")),
                                                 Local(t, "window_days"), 15, wh) :
                     SetLocals(t, [edge_chart_rows |-> rows,
                                   edge_graph_rows |-> Local(t, "edge_rows")])
               /\ hist' = [hist EXCEPT ![t].calls = Called(t, "edge_chart")]
    /\ pc' = [pc EXCEPT ![t] = "set_lock"]
    /\ UNCHANGED <<gcp_project, warehouse, now, lock, cache, served, last_set, search_calls>>
    /\ UNCHANGED <<s_vars, p_vars, r_vars, m_vars>>

\* _cache_set, line 54: with _CACHE_LOCK
SetLock(t) ==
    /\ pc[t] = "set_lock"
    /\ CanAcquire(lock)
    /\ lock' = t
    /\ hist' = [hist EXCEPT ![t].calls = Called(t, "cache_set")]
    /\ pc' = [pc EXCEPT ![t] = "set_write"]
    /\ UNCHANGED <<gcp_project, warehouse, now, cache, loc, served, last_set, search_calls>>
    /\ UNCHANGED <<s_vars, p_vars, r_vars, m_vars>>

\* _cache_set, line 55: _DASHBOARD_CACHE[key] = (datetime.utcnow(), value)
SetWrite(t) ==
    /\ pc[t] = "set_write"
    /\ \E reading \in utcnow :
          /\ now' = reading
          /\ cache' = Stored(cache, Local(t, "cache_key"),
                             Entry(reading, PayloadOf(loc[t])))
          /\ UNCHANGED search_calls
          /\ last_set' = [last_set EXCEPT ![Local(t, "cache_key")] =
                          Entry(reading, PayloadOf(loc[t]))]
    /\ hist' = [hist EXCEPT ![t].stored =
                  [has |-> TRUE, key |-> Local(t, "cache_key"), value |-> PayloadOf(loc[t])]]
    /\ pc' = [pc EXCEPT ![t] = "set_unlock"]
    /\ UNCHANGED <<gcp_project, warehouse, lock, loc, served>>
    /\ UNCHANGED <<s_vars, p_vars, r_vars, m_vars>>

\* _cache_set: leaving the with block
SetUnlock(t) ==
    /\ pc[t] = "set_unlock"
    /\ lock' = Free
    /\ pc' = [pc EXCEPT ![t] = "render"]
    /\ UNCHANGED <<gcp_project, warehouse, now, cache, loc, served, hist, last_set, search_calls>>
    /\ UNCHANGED <<s_vars, p_vars, r_vars, m_vars>>

\* lines 697-716: render_template
Render(t) ==
    /\ pc[t] = "render"
    /\ loc' = [loc EXCEPT ![t] = NoLocals]
    /\ hist' = [hist EXCEPT ![t] = NoHistory]
    /\ pc' = [pc EXCEPT ![t] = "done"]
    /\ UNCHANGED <<gcp_project, warehouse, now, lock, cache, served, last_set, search_calls>>
    /\ UNCHANGED <<s_vars, p_vars, r_vars, m_vars>>

ServiceStart ==
    /\ gcp_project \in {None, ProjectA}
    /\ warehouse \in HandlerWarehouses
    /\ now = 0
    /\ lock = Free
    /\ cache = [k \in CacheKeys |-> Absent]
    /\ pc = [t \in Threads |-> "idle"]
    /\ loc = [t \in Threads |-> NoLocals]
    /\ served = 0
    /\ hist = [t \in Threads |-> NoHistory]
    /\ last_set = [k \in CacheKeys |-> Absent]
    /\ search_calls = << >>

----------------------------------------------------------------------------
(* Properties of the cache and of index()                                  *)

\* _cache_get(key) has produced its result
Returned(t) == pc[t] \in {"get_unlock", "got"}

\* C1: after _cache_set(k, v) at time T with no later _cache_set on k, a
\* _cache_get(k) at time T' returns exactly v when T' - T <= CACHE_TTL_SECONDS
\* and None when T' - T > CACHE_TTL_SECONDS.
C1_CacheTtl ==
    \A t \in Threads :
        Returned(t) /\ hist[t].snap.has =>
            Local(t, "cached") =
                IF hist[t].read_at - hist[t].snap.exp <= CACHE_TTL_SECONDS
                THEN Hit(hist[t].snap.value)
                ELSE Miss

\* a read past the TTL of an entry that was stored: the entry was found, and None is returned
C1_Witness ==
    \E t \in Threads :
        /\ Returned(t)
        /\ hist[t].snap.has
        /\ Local(t, "entry").has
        /\ hist[t].read_at - hist[t].snap.exp > CACHE_TTL_SECONDS
        /\ Local(t, "cached") = Miss

\* the thread is between entering and leaving a `with _CACHE_LOCK` block
InCacheAccess(t) ==
    pc[t] \in {"get_read", "get_check", "get_pop", "get_unlock", "set_write", "set_unlock"}

\* C2: every read, write and removal on the dashboard cache map happens while
\* the cache lock is held by the accessing thread; no two threads are inside a
\* cache access at once; the entry a thread has read is a whole (timestamp,
\* payload) pair written by one _cache_set, and stays so while it is examined.
C2_CacheLock ==
    /\ [](\A t \in Threads : InCacheAccess(t) => lock = t)
    /\ [](\A t, u \in Threads : InCacheAccess(t) /\ InCacheAccess(u) => t = u)
    /\ [](\A t \in Threads :
            pc[t] \in {"get_check", "get_pop"} =>
                /\ Local(t, "entry") = cache[Local(t, "cache_key")]
                /\ Local(t, "entry") = last_set[Local(t, "cache_key")])
    /\ [][cache' # cache => lock \in Threads /\ pc[lock] \in {"get_pop", "set_write"}]_vars

\* one thread writes an entry while another waits at the lock to read the same key
C2_Witness ==
    \E t, u \in Threads :
        /\ t # u
        /\ pc[t] = "set_write"
        /\ pc[u] = "get_lock"
        /\ Local(t, "cache_key") = Local(u, "cache_key")

IsPrefix(a, b) == Len(a) <= Len(b) /\ a = SubSeq(b, 1, Len(a))

TrendStages ==
    <<"cache_get", "client", "pipeline_status", "search", "metrics", "ranking", "user_events">>

\* the calls of a request that runs every stage
AllCalls(include_network) ==
    TrendStages \o (IF include_network THEN <<"edges", "edge_chart">> ELSE << >>)
                \o <<"cache_set">>

\* the calls of a request whose edge query raised
CallsAfterEdgeFailure == TrendStages \o <<"edges", "cache_set">>

InOrder(t) ==
    \/ IsPrefix(hist[t].calls, AllCalls(Local(t, "include_network")))
    \/ Local(t, "include_network") /\ IsPrefix(hist[t].calls, CallsAfterEdgeFailure)

\* the failures that end the trend stages
TrendFailures == {"client", "project", "user_event_query"}

StoredUnderKey(t) ==
    /\ hist[t].stored.has
    /\ hist[t].stored.key = Local(t, "cache_key")
    /\ hist[t].stored.value = PayloadOf(loc[t])
    /\ cache[Local(t, "cache_key")].has
    /\ cache[Local(t, "cache_key")].value = PayloadOf(loc[t])

\* C3 as stated: the cache is checked first; on a hit no stage runs; on a miss
\* the stages run in order, the Network Builder only with the network flag,
\* and the payload is stored under the request's key before the page is rendered.
C3_MissAlwaysStores ==
    \A t \in Threads :
        /\ InOrder(t)
        /\ Local(t, "cached").hit => hist[t].calls = <<"cache_get">>
        /\ pc[t] = "render" /\ ~Local(t, "cached").hit => StoredUnderKey(t)

\* C3, amended: the cache is checked first; on a hit no stage runs; on a miss
\* the stages run in order (client, pipeline status, Candidate Discovery,
\* Metrics Aggregation, Ranking, user events, and the Network Builder only
\* with the network flag); the payload is stored under the request's key
\* before the page is rendered exactly when Candidate Discovery returned a
\* repository and no trend stage raised, and then every stage up to the
\* failing network query has run.
C3_HandlerOrder ==
    \A t \in Threads :
        /\ InOrder(t)
        /\ Local(t, "cached").hit => hist[t].calls = <<"cache_get">>
        /\ pc[t] = "render" /\ ~Local(t, "cached").hit =>
              /\ hist[t].stored.has <=>
                    /\ Local(t, "repos") # << >>
                    /\ hist[t].failed \cap TrendFailures = {}
              /\ hist[t].stored.has =>
                    /\ StoredUnderKey(t)
                    /\ hist[t].calls =
                          IF "edge_query" \in hist[t].failed THEN CallsAfterEdgeFailure
                          ELSE AllCalls(Local(t, "include_network"))
              /\ ~hist[t].stored.has => ~cache[Local(t, "cache_key")].has

\* a miss with the network flag has run every stage and stored its payload,
\* and is about to render
C3_Witness ==
    \E t \in Threads :
        /\ pc[t] = "render"
        /\ ~Local(t, "cached").hit
        /\ Local(t, "include_network")
        /\ hist[t].calls = AllCalls(TRUE)
        /\ StoredUnderKey(t)
        /\ Local(t, "edge_rows") # << >>

\* C4: when a Network Builder query raises in a request whose trend stages
\* succeeded, the page carries the ranked trend rows, the edge rows are
\* empty, edge_error is set and trend_error is not.
C4_NetworkFailureLeavesEdgesEmpty ==
    \A t \in Threads :
        /\ pc[t] = "render"
        /\ hist[t].failed \cap {"edge_query", "chart_query"} # {}
        /\ hist[t].failed \cap TrendFailures = {}
        => /\ Local(t, "trend_rows") = build_trend_rows(Local(t, "trend_with_delta"))
           /\ Local(t, "trend_rows") # << >>
           /\ Local(t, "edge_rows") = << >>
           /\ Local(t, "edge_error") # None
           /\ Local(t, "trend_error") = None

\* C9: a failure of the delta query of Metrics Aggregation reaches the
\* handler: the page of that request is rendered with a trend error.
C9_MetricsFailurePropagates ==
    \A t \in Threads :
        pc[t] = "render" /\ "delta_query" \in hist[t].failed =>
            Local(t, "trend_error") # None

HasCalled(t, name) == \E k \in 1 .. Len(hist[t].calls) : hist[t].calls[k] = name

\* the contributors of a repository in a window whose names do not contain
\* copilot, claude or codex in any letter case
UserContributors(name, window_days, wh, InWindow(_, _)) ==
    {e.contributor : e \in
        {e \in wh.stg : /\ e.repo_name = name
                        /\ InWindow(e.day, window_days)
                        /\ ~BLACKLIST_PATTERN_search(e.contributor)}}

SharedUsers(a, b, window_days, wh) ==
    UserContributors(a, window_days, wh, InCurrWindow)
        \cap UserContributors(b, window_days, wh, InCurrWindow)

RECURSIVE SharedUsersSum(_, _, _, _)
SharedUsersSum(name, others, window_days, wh) ==
    IF others = {} THEN 0
    ELSE LET o == CHOOSE o \in others : TRUE
         IN  Cardinality(SharedUsers(name, o, window_days, wh))
                + SharedUsersSum(name, others \ {o}, window_days, wh)

\* C11: blacklisted contributors are left out of every distinct-contributor
\* count: the current and previous counts behind contributors_delta_window
\* and delta_score, the user-event counts, the shared_contributor_count of
\* the edges and the degree rows.
C11_BlacklistExcluded ==
    \A t \in Threads :
        LET w == Local(t, "window_days")
            curr(name) == Cardinality(UserContributors(name, w, warehouse, InCurrWindow))
            prev(name) == Cardinality(UserContributors(name, w, warehouse, InPrevWindow))
            metrics == Local(t, "trend_with_delta")
            ranked == Local(t, "trend_rows")
            events == Local(t, "user_event_rows")
            edges == Local(t, "edge_rows")
            degrees == Local(t, "edge_chart_rows")
            names == {ranked[k].repo_name : k \in 1 .. Len(ranked)}
        IN  /\ HasCalled(t, "metrics") /\ "delta_query" \notin hist[t].failed =>
                  /\ \A k \in 1 .. Len(metrics) :
                        metrics[k].contributors_delta_window =
                           curr(metrics[k].repo_name) - prev(metrics[k].repo_name)
                  /\ \A k \in 1 .. Len(ranked) :
                        ranked[k].delta_score =
                           ranked[k].activity_delta_window
                              + curr(ranked[k].repo_name) - prev(ranked[k].repo_name)
            /\ HasCalled(t, "user_events") =>
                  \A k \in 1 .. Len(events) :
                     /\ events[k].curr_contributor_count = curr(events[k].repo_name)
                     /\ events[k].prev_contributor_count = prev(events[k].repo_name)
                     /\ events[k].contributor_delta =
                           curr(events[k].repo_name) - prev(events[k].repo_name)
            /\ HasCalled(t, "edges") =>
                  /\ \A k \in 1 .. Len(edges) :
                        edges[k].shared_contributor_count =
                           Cardinality(SharedUsers(edges[k].source_repo, edges[k].target_repo,
                                                   w, warehouse))
                  /\ \A k \in 1 .. Len(degrees) :
                        degrees[k].degree =
                           SharedUsersSum(degrees[k].repo_name,
                                          names \ {degrees[k].repo_name}, w, warehouse)

\* C12: the candidate list is cached per (mode, window): of two requests with
\* the same mode and window that both miss the dashboard cache and arrive
\* within the search TTL of each other (here: at the same reading of the
\* clock), only the first calls the search API.
C12_SearchCachedPerModeWindow ==
    \A i, j \in 1 .. Len(search_calls) :
        /\ i < j
        /\ search_calls[i].trend_mode = search_calls[j].trend_mode
        /\ search_calls[i].window_days = search_calls[j].window_days
        => search_calls[j].at # search_calls[i].at

\* the sum of shared_contributor_count over the rows of `edges` at the
\* positions `at` in which `name` is source_repo or target_repo
RECURSIVE EdgeSum(_, _, _)
EdgeSum(edges, at, name) ==
    IF at = {} THEN 0
    ELSE LET k == CHOOSE k \in at : TRUE
         IN  (IF edges[k].source_repo = name \/ edges[k].target_repo = name
              THEN edges[k].shared_contributor_count ELSE 0)
                + EdgeSum(edges, at \ {k}, name)

\* C13: in a response with the network flag set, the degree of each degree
\* row is the sum of shared_contributor_count over the edge rows of the same
\* response that have the repository as source or target; the degree rows
\* come by degree descending, equal degrees by repository name, and there
\* are at most 15 of them.
C13_DegreeRows ==
    \A t \in Threads :
        LET edges == Local(t, "edge_rows")
            degrees == Local(t, "edge_chart_rows")
        IN  /\ HasCalled(t, "edge_chart")
            /\ hist[t].failed \cap {"edge_query", "chart_query"} = {}
            => /\ \A k \in 1 .. Len(degrees) :
                     degrees[k].degree =
                        EdgeSum(edges, 1 .. Len(edges), degrees[k].repo_name)
               /\ \A i, j \in 1 .. Len(degrees) :
                     i < j =>
                        \/ degrees[i].degree > degrees[j].degree
                        \/ /\ degrees[i].degree = degrees[j].degree
                           /\ StrLess(degrees[i].repo_name, degrees[j].repo_name)
               /\ Len(degrees) <= 15

\* C14: expiry is lazy and a read never refreshes. A step of _cache_get other
\* than the pop leaves the whole cache map as it was, timestamps included;
\* the pop is taken only past the TTL and removes the entry of its own key
\* only; _cache_set changes the entry of its own key only; no other step
\* changes the map, so an entry goes away only by a read of its key past the
\* TTL.
C14_LazyExpiry ==
    [][ /\ \A t \in Threads :
              pc'[t] # pc[t] =>
                 /\ pc[t] \in {"get_lock", "get_read", "get_check", "get_unlock"}
                       => cache' = cache
                 /\ pc[t] = "get_pop" =>
                       /\ cache[Local(t, "cache_key")].has
                       /\ now - cache[Local(t, "cache_key")].exp > CACHE_TTL_SECONDS
                       /\ ~cache'[Local(t, "cache_key")].has
                       /\ \A k \in CacheKeys \ {Local(t, "cache_key")} : cache'[k] = cache[k]
                 /\ pc[t] = "set_write" =>
                       /\ cache'[Local(t, "cache_key")].has
                       /\ \A k \in CacheKeys \ {Local(t, "cache_key")} : cache'[k] = cache[k]
                 /\ pc[t] \notin {"get_pop", "set_write"} => cache' = cache
        /\ \A k \in CacheKeys :
              cache[k].has /\ ~cache'[k].has =>
                 \E t \in Threads : /\ pc[t] = "get_pop"
                                    /\ pc'[t] # pc[t]
                                    /\ Local(t, "cache_key") = k
      ]_vars

\* a read past the TTL is about to pop its entry while the entry of another
\* key is in the cache
C14_Witness ==
    \E t \in Threads :
        /\ pc[t] = "get_pop"
        /\ cache[Local(t, "cache_key")].has
        /\ \E k \in CacheKeys \ {Local(t, "cache_key")} : cache[k].has

\* C15: every payload in the dashboard cache has non-empty trend rows and no
\* trend error, and if it carries an edge error its edge rows are empty; the
\* request that wrote a payload had at least one candidate and no failure of
\* the client, the pipeline status, the metrics, the ranking or the
\* user-event query; a request without candidates or with such a failure
\* writes nothing.
C15_CachedPayloads ==
    /\ \A k \in CacheKeys :
          cache[k].has =>
             /\ cache[k].value.trend_rows # << >>
             /\ cache[k].value.trend_error = None
             /\ cache[k].value.edge_error # None => cache[k].value.edge_rows = << >>
    /\ \A t \in Threads :
          /\ hist[t].stored.has =>
                /\ Local(t, "repos") # << >>
                /\ hist[t].failed \cap TrendFailures = {}
                /\ \A k \in 1 .. Len(TrendStages) : HasCalled(t, TrendStages[k])
          /\ pc[t] = "render" /\ ~Local(t, "cached").hit
                /\ (Local(t, "repos") = << >> \/ hist[t].failed \cap TrendFailures # {})
                => ~hist[t].stored.has

----------------------------------------------------------------------------
(* The specifications: each runs one part of the program and leaves the    *)
(* variables of the other parts idle.                                      *)

ParamIdle ==
    /\ p_args = [window |-> NotGiven, network |-> NotGiven]
    /\ p_project = None
    /\ p_pc = "idle"
    /\ p_window = 0
    /\ p_network = FALSE
    /\ p_key = << >>

SearchIdle ==
    /\ s_mode = "trending"
    /\ s_pc = "idle"
    /\ s_i = 1
    /\ s_rows = << >>
    /\ s_issued = << >>
    /\ s_failed = "no"
    /\ s_first = {}
    /\ s_results = << >>

MetricsIdle ==
    /\ m_pc = "idle"
    /\ m_repos = << >>
    /\ m_window = 0
    /\ m_query = "none"
    /\ m_rows = << >>
    /\ m_out = << >>

ServiceIdle ==
    /\ gcp_project = None
    /\ warehouse = EmptyWarehouse
    /\ now = 0
    /\ lock = Free
    /\ cache = [k \in {} |-> Absent]
    /\ pc = [t \in {} |-> "idle"]
    /\ loc = [t \in {} |-> NoLocals]
    /\ served = 0
    /\ hist = [t \in {} |-> NoHistory]
    /\ last_set = [k \in {} |-> Absent]
    /\ search_calls = << >>

RankIdle ==
    /\ r_pc = "idle"
    /\ r_in = << >>
    /\ r_out = << >>
    /\ r_again = << >>

ParamInit == ParamStart /\ SearchIdle /\ RankIdle /\ MetricsIdle /\ ServiceIdle

ParamNext == ParamRedirect \/ ParamParse

SpecParams == ParamInit /\ [][ParamNext]_vars

SearchInit == SearchStart /\ ParamIdle /\ RankIdle /\ MetricsIdle /\ ServiceIdle

SearchNext ==
    \/ SearchPrimaryQuery
    \/ SearchPrimaryDone
    \/ SearchFallbackQuery
    \/ SearchReturn

SpecSearch == SearchInit /\ [][SearchNext]_vars

RankInit == RankStart /\ SearchIdle /\ ParamIdle /\ MetricsIdle /\ ServiceIdle

RankNext == RankBuild \/ RankAgain

SpecRank == RankInit /\ [][RankNext]_vars

MetricsInit == MetricsStart /\ SearchIdle /\ ParamIdle /\ RankIdle /\ ServiceIdle

\* there is one operation; it either sends the query or returns before it
MetricsNext == MetricsCall

SpecMetrics == MetricsInit /\ [][MetricsNext]_vars

Init == ServiceStart /\ SearchIdle /\ ParamIdle /\ RankIdle /\ MetricsIdle

\* the requests are served one after another by one thread
Worker == "t1"

Next ==
    \/ Request(Worker)
    \/ Redirect(Worker)
    \/ Parse(Worker)
    \/ GetLock(Worker)
    \/ GetRead(Worker)
    \/ GetCheck(Worker)
    \/ GetPop(Worker)
    \/ GetUnlock(Worker)
    \/ UseCached(Worker)
    \/ ClientInit(Worker)
    \/ PipelineStatus(Worker)
    \/ Search(Worker)
    \/ Deltas(Worker)
    \/ Rank(Worker)
    \/ UserEvents(Worker)
    \/ Edges(Worker)
    \/ Chart(Worker)
    \/ SetLock(Worker)
    \/ SetWrite(Worker)
    \/ SetUnlock(Worker)
    \/ Render(Worker)

Spec == Init /\ [][Next]_vars

\* the request threads run concurrently; what a request computes between its
\* cache read and its cache write is one step
CacheInit == ServiceStart /\ SearchIdle /\ ParamIdle /\ RankIdle /\ MetricsIdle

CacheNext ==
    \E t \in Threads :
       \/ Request(t)
       \/ Redirect(t)
       \/ Parse(t)
       \/ GetLock(t)
       \/ GetRead(t)
       \/ GetCheck(t)
       \/ GetPop(t)
       \/ GetUnlock(t)
       \/ UseCached(t)
       \/ Recompute(t)
       \/ SetLock(t)
       \/ SetWrite(t)
       \/ SetUnlock(t)
       \/ Render(t)

SpecCache == CacheInit /\ [][CacheNext]_vars

\* the cache over a longer run: one thread serves up to MaxCacheRequests
\* requests one after the other
ExpiryInit == ServiceStart /\ SearchIdle /\ ParamIdle /\ RankIdle /\ MetricsIdle

ExpiryNext ==
    \/ Arrive(Worker, MaxCacheRequests)
    \/ Redirect(Worker)
    \/ Parse(Worker)
    \/ GetLock(Worker)
    \/ GetRead(Worker)
    \/ GetCheck(Worker)
    \/ GetPop(Worker)
    \/ GetUnlock(Worker)
    \/ UseCached(Worker)
    \/ Recompute(Worker)
    \/ SetLock(Worker)
    \/ SetWrite(Worker)
    \/ SetUnlock(Worker)
    \/ Render(Worker)

SpecExpiry == ExpiryInit /\ [][ExpiryNext]_vars

====
